---- MODULE Spec2Model ----
(***************************************************************************)
(* smokesignal.py: a process-wide registry mapping signal identifiers to   *)
(* sets of callback wrappers, with register / unregister / query / emit.  *)
(***************************************************************************)
EXTENDS Integers, Sequences, FiniteSets, TLC

(* ------------------------------ bounds -------------------------------- *)
\* wrappers ever created (every _on call creates one)
MaxWrappers == 2
\* largest integer passed as max_calls
MaxCallsArg == 2
\* emits followed by the single-registration scenario
MaxEmits == 3

(* ------------------------------ values -------------------------------- *)
\* Python values that reach the registry, tagged by type.
None == [kind |-> "None"]
IntV(n) == [kind |-> "int", n |-> n]
Obj == [kind |-> "object"]
Fn(name) == [kind |-> "function", name |-> name]
Wr(i) == [kind |-> "wrapper", id |-> i]
\* a functools.partial(_on, signals, max_calls=mc)
Partial(sigs, mc) == [kind |-> "partial", signals |-> sigs, max_calls |-> mc]
\* the attribute is absent from the object's __dict__
NoAttr == [kind |-> "noattr"]

SignalIds == {"a", "b"}
Functions == {Fn("f"), Fn("g")}
Wrappers == {Wr(i) : i \in 1..MaxWrappers}
Callables == Functions \cup Wrappers
Ints == {IntV(n) : n \in 0..MaxCallsArg}
MaxCallsVals == {None} \cup Ints
NonCallables == {None, Obj, IntV(MaxCallsArg)}
\* the second positional argument of on/once in decorator mode, with max_calls
Decorations == {<<None, n>> : n \in MaxCallsVals} \cup {<<k, None>> : k \in Ints}
\* positional argument passed through emit
Args == {"x", "y"}

\* the `signals` parameter: one identifier, or a list/tuple of identifiers
Scalar(s) == [kind |-> "scalar", sig |-> s]
List(q) == [kind |-> "list", items |-> q]
SignalLists == {<<>>, <<"a">>, <<"b">>, <<"a", "b">>}
SignalArgs == {Scalar(s) : s \in SignalIds} \cup {List(<<"a", "b">>)}

callable(v) == v.kind \in {"function", "wrapper"}
isinstance_int(v) == v.kind = "int"

(* ------------------------------ state --------------------------------- *)
VARIABLES
    receivers,  \* _receivers[signal]: the set of wrappers registered for signal
    keys,       \* the keys of the _receivers defaultdict, in insertion order
    wrapped,    \* wrapped[i]: the callback closed over by wrapper i (__wrapped__)
    max_calls,  \* max_calls[c]: the _max_calls attribute of function c
    last,       \* the last call made, the registry it found, and its outcome
    sole        \* history of a callback registered once and then only emitted

vars == <<receivers, keys, wrapped, max_calls, last, sole>>

NoScenario == [kind |-> "none"]

(* --------------------------- the registry ----------------------------- *)
\* _receivers = defaultdict(set): reading _receivers[signal] inserts the key
Touch(K, signal) ==
    IF \E i \in 1..Len(K) : K[i] = signal THEN K ELSE Append(K, signal)

RECURSIVE TouchAll(_, _)
TouchAll(K, sigs) ==
    IF sigs = <<>> THEN K ELSE TouchAll(Touch(K, Head(sigs)), Tail(sigs))

\* if not isinstance(signals, (list, tuple)): signals = [signals]
AsList(signals) ==
    IF signals.kind = "scalar" THEN <<signals.sig>> ELSE signals.items

\* getattr(fn, '__wrapped__', None)
WrappedOf(W, fn) ==
    IF fn.kind = "wrapper" /\ fn.id \in 1..Len(W) THEN W[fn.id] ELSE None

\* callback in (fn, getattr(fn, '__wrapped__', None))
Matches(W, callback, fn) ==
    callback = fn \/ callback = WrappedOf(W, fn)

\* responds_to(callback, signal) over a registry R
RespondsIn(R, W, callback, signal) ==
    \E fn \in R[signal] : Matches(W, callback, fn)

responds_to(callback, signal) ==
    RespondsIn(receivers, wrapped, callback, signal)

\* signals(callback): tuple(s for s in _receivers if responds_to(callback, s))
SignalsIn(R, K, W, callback) ==
    LET test(s) == RespondsIn(R, W, callback, s) IN SelectSeq(K, test)

signals(callback) ==
    SignalsIn(receivers, keys, wrapped, callback)

Range(q) == {q[i] : i \in 1..Len(q)}

(* ------------------------------ wrapper ------------------------------- *)
\* the budget test of line 101 with >= for >
AllowsAtZero(v) ==
    v = None \/ (v.kind = "int" /\ v.n >= 0)

\* if callback._max_calls is None or callback._max_calls > 0
Allows(v) ==
    v = None \/ (v.kind = "int" /\ v.n > 0)

\* the wrapper leaving the counter as it is
NoDecrement(v) ==
    v

\* if callback._max_calls is not None: callback._max_calls -= 1
Decrement(v) ==
    IF v # None THEN IntV(v.n - 1) ELSE v

\* the wrapper lowering the counter after the callback has returned, so not
\* when the callback raises
RECURSIVE InvokeDecrementAfter(_, _, _, _, _)
InvokeDecrementAfter(fn, args, raising, W, mc) ==
    IF fn.kind = "function"
    THEN [max_calls |-> mc, calls |-> <<>>, raised |-> fn \in raising]
    ELSE LET callback == W[fn.id] IN
         IF Allows(mc[callback])
         THEN LET inner == InvokeDecrementAfter(callback, args, raising, W, mc)
              IN [max_calls |-> IF inner.raised THEN inner.max_calls
                                ELSE [inner.max_calls EXCEPT ![callback] = Decrement(@)],
                  calls |-> <<[fn |-> callback, args |-> args]>> \o inner.calls,
                  raised |-> inner.raised]
         ELSE [max_calls |-> mc, calls |-> <<>>, raised |-> FALSE]

\* A call of fn(*args): a function runs its body (and raises when it is one of
\* `raising`); a wrapper checks and decrements the budget stored on the callback
\* it closes over and delegates, or returns None without delegating.
RECURSIVE Invoke(_, _, _, _, _)
Invoke(fn, args, raising, W, mc) ==
    IF fn.kind = "function"
    THEN [max_calls |-> mc, calls |-> <<>>, raised |-> fn \in raising]
    ELSE LET callback == W[fn.id] IN
         IF Allows(mc[callback])
         THEN LET mc1 == [mc EXCEPT ![callback] = Decrement(@)]
                  inner == Invoke(callback, args, raising, W, mc1)
              IN [max_calls |-> inner.max_calls,
                  calls |-> <<[fn |-> callback, args |-> args]>> \o inner.calls,
                  raised |-> inner.raised]
         ELSE [max_calls |-> mc, calls |-> <<>>, raised |-> FALSE]

(* -------------------------------- emit -------------------------------- *)
\* the orders in which iterating a set may yield its elements
Orders(S) ==
    {q \in [1..Cardinality(S) -> S] : \A i, j \in 1..Cardinality(S) : q[i] = q[j] => i = j}

\* the loop of emit with each call guarded by try/except
RECURSIVE DeliverIsolated(_, _, _, _, _, _, _)
DeliverIsolated(order, i, args, raising, W, mc, log) ==
    IF i > Len(order)
    THEN [max_calls |-> mc, log |-> log,
          raised |-> \E k \in 1..Len(log) : log[k].raised]
    ELSE LET r == Invoke(order[i], args, raising, W, mc)
             entry == [wrapper |-> order[i], args |-> args,
                       calls |-> r.calls, raised |-> r.raised]
         IN DeliverIsolated(order, i + 1, args, raising, W, r.max_calls,
                            Append(log, entry))

\* for callback in _receivers[signal]: callback(*args, **kwargs)
\* an exception leaves the loop
RECURSIVE Deliver(_, _, _, _, _, _, _)
Deliver(order, i, args, raising, W, mc, log) ==
    IF i > Len(order)
    THEN [max_calls |-> mc, log |-> log, raised |-> FALSE]
    ELSE LET r == Invoke(order[i], args, raising, W, mc)
             entry == [wrapper |-> order[i], args |-> args,
                       calls |-> r.calls, raised |-> r.raised]
         IN IF r.raised
            THEN [max_calls |-> r.max_calls, log |-> Append(log, entry), raised |-> TRUE]
            ELSE Deliver(order, i + 1, args, raising, W, r.max_calls, Append(log, entry))

\* emit iterating over every signal's wrappers
EmitAllTargets(R, signal) ==
    UNION {R[s] : s \in SignalIds}

\* the wrappers emit(signal) iterates over
EmitTargets(R, signal) ==
    R[signal]

(* --------------------------------- _on -------------------------------- *)
\* the wrapper added to the first signal of the list only
AddFirst(R, sigs, wrapper) ==
    IF sigs = <<>> THEN R ELSE [R EXCEPT ![Head(sigs)] = @ \cup {wrapper}]

RECURSIVE AddAll(_, _, _)
\* for signal in signals: _receivers[signal].add(wrapper)
AddAll(R, sigs, wrapper) ==
    IF sigs = <<>> THEN R
    ELSE AddAll([R EXCEPT ![Head(sigs)] = @ \cup {wrapper}], Tail(sigs), wrapper)

\* _on handing back the wrapper made for the callback before, when there is one
OnImplDedup(R, K, W, mc, sigs, callback, n) ==
    IF ~callable(callback)
    THEN [result |-> "AssertionError", ret |-> None,
          receivers |-> R, keys |-> K, wrapped |-> W, max_calls |-> mc]
    ELSE LET known == {i \in 1..Len(W) : W[i] = callback}
             wrapper == IF known = {} THEN Wr(Len(W) + 1)
                        ELSE Wr(CHOOSE i \in known : TRUE)
         IN
         [result |-> "ok", ret |-> wrapper,
          receivers |-> AddAll(R, AsList(sigs), wrapper),
          keys |-> TouchAll(K, AsList(sigs)),
          wrapped |-> IF known = {} THEN Append(W, callback) ELSE W,
          max_calls |-> [mc EXCEPT ![callback] = n]]

\* _on(signals, callback, max_calls): assert, set the budget on the callback,
\* create the wrapper, add it to each signal's set.  (wraps() also copies the
\* callback's __dict__ to the wrapper; the copy is read only when a wrapper is
\* itself registered as a callback, and the callbacks here are functions.)
OnImpl(R, K, W, mc, sigs, callback, n) ==
    IF ~callable(callback)
    THEN [result |-> "AssertionError", ret |-> None,
          receivers |-> R, keys |-> K, wrapped |-> W, max_calls |-> mc]
    ELSE LET wrapper == Wr(Len(W) + 1) IN
         [result |-> "ok", ret |-> wrapper,
          receivers |-> AddAll(R, AsList(sigs), wrapper),
          keys |-> TouchAll(K, AsList(sigs)),
          wrapped |-> Append(W, callback),
          max_calls |-> [mc EXCEPT ![callback] = n]]

\* on without the exchange of line 74: an integer in the callback position is
\* dropped
OnCallNoSwap(R, K, W, mc, sigs, callback, n) ==
    IF isinstance_int(callback) \/ callback = None
    THEN [result |-> "ok", ret |-> Partial(sigs, n),
          receivers |-> R, keys |-> K, wrapped |-> W, max_calls |-> mc]
    ELSE OnImpl(R, K, W, mc, sigs, callback, n)

\* on(signals, callback, max_calls): decorator mode returns a partial of _on
OnCall(R, K, W, mc, sigs, callback, n) ==
    IF isinstance_int(callback) \/ callback = None
    THEN [result |-> "ok",
          ret |-> Partial(sigs, IF isinstance_int(callback) THEN callback ELSE n),
          receivers |-> R, keys |-> K, wrapped |-> W, max_calls |-> mc]
    ELSE OnImpl(R, K, W, mc, sigs, callback, n)

\* once(signals, callback): on(signals, callback, max_calls=1)
OnceCall(R, K, W, mc, sigs, callback) ==
    OnCall(R, K, W, mc, sigs, callback, IntV(1))

\* calling what on/once returned in decorator mode: partial(_on, ...)(x)
CallPartial(R, K, W, mc, p, x) ==
    OnImpl(R, K, W, mc, p.signals, x, p.max_calls)

(* ---------------------------- disconnect ------------------------------ *)
\* disconnect_from without the __wrapped__ comparison of line 155
RemoveIdentical(W, S, callback) ==
    {check \in S : ~(check = callback)}

\* for check in _receivers[signal].copy(): remove check when it is the callback
\* or wraps the callback
RemoveFrom(W, S, callback) ==
    {check \in S : ~(check = callback) /\ ~(callback = WrappedOf(W, check))}

\* disconnect_from scanning every signal's set, not only those given
DisconnectEverywhere(R, W, callback, sigs) ==
    [s \in SignalIds |-> RemoveFrom(W, R[s], callback)]

RECURSIVE DisconnectFromImpl(_, _, _, _)
DisconnectFromImpl(R, W, callback, sigs) ==
    IF sigs = <<>> THEN R
    ELSE DisconnectFromImpl(
            [R EXCEPT ![Head(sigs)] = RemoveFrom(W, @, callback)],
            W, callback, Tail(sigs))

\* clear emptying every signal's set
ClearEverything(R, sigs) ==
    [s \in SignalIds |-> {}]

RECURSIVE ClearImpl(_, _)
\* for signal in signals: _receivers[signal].clear()
ClearImpl(R, sigs) ==
    IF sigs = <<>> THEN R
    ELSE ClearImpl([R EXCEPT ![Head(sigs)] = {}], Tail(sigs))

(* ------------------ emit with callbacks that call back ------------------ *)
\* The body of a callback is a sequence of calls of the registry's functions
\* (or a raise), run when a wrapper delegates to the callback.
SRaise == [op |-> "raise", signal |-> "a", callback |-> None, n |-> None]
SEmit(s) == [op |-> "emit", signal |-> s, callback |-> None, n |-> None]
SOn(s, c, n) == [op |-> "on", signal |-> s, callback |-> c, n |-> n]
SDisconnect(c) == [op |-> "disconnect", signal |-> "a", callback |-> c, n |-> None]
SDisconnectFrom(c, s) == [op |-> "disconnect_from", signal |-> s, callback |-> c, n |-> None]
SClear(s) == [op |-> "clear", signal |-> s, callback |-> None, n |-> None]

\* the bodies the callbacks are given: return, raise, emit, register, remove,
\* clear, and register one callback while removing another
Bodies ==
    {<<>>, <<SRaise>>, <<SEmit("a")>>, <<SClear("a")>>}
       \cup {<<SOn("a", c, None)>> : c \in Functions}
       \cup {<<SDisconnect(c)>> : c \in Functions}
       \cup {<<SOn("a", Fn("g"), None), SDisconnectFrom(Fn("f"), "a")>>}

NoBodies == [c \in Functions |-> <<>>]

\* nested calls the interpreter allows before it raises RecursionError; above
\* the depth any budget of at most MaxCallsArg calls lets a callback reach
RecursionLimit == MaxCallsArg + 2

\* the registry during an emit, the runs of each callback so far, the signals
\* whose sets a callback added to or removed from, the deepest emit entered,
\* and the exception in flight
Running(R, K, W, mc) ==
    [receivers |-> R, keys |-> K, wrapped |-> W, max_calls |-> mc,
     runs |-> [c \in Functions |-> 0], touched |-> {}, deepest |-> 0, exc |-> "none"]

Changed(R1, R2) == {s \in SignalIds : R1[s] # R2[s]}

\* the registry once emit has looked the signal up
Entered(signal, st, depth) ==
    [st EXCEPT !.keys = Touch(@, signal),
               !.deepest = IF depth > @ THEN depth ELSE @]

RECURSIVE ExecStmt(_, _, _, _)
RECURSIVE ExecBody(_, _, _, _)
RECURSIVE CallWrapperDecrementAfter(_, _, _, _)
RECURSIVE CallWrapper(_, _, _, _)
RECURSIVE IterateCopy(_, _, _, _, _, _, _)
RECURSIVE Iterate(_, _, _, _, _, _, _)
RECURSIVE EmitIn(_, _, _, _)

\* one call made by a callback's body, in the registry st
ExecStmt(stmt, st, bodies, depth) ==
    CASE stmt.op = "raise" -> {[st EXCEPT !.exc = "raised"]}
      [] stmt.op = "emit" -> EmitIn(stmt.signal, st, bodies, depth + 1)
      [] stmt.op = "on" ->
            LET r == OnCall(st.receivers, st.keys, st.wrapped, st.max_calls,
                            Scalar(stmt.signal), stmt.callback, stmt.n)
            IN {[st EXCEPT !.receivers = r.receivers, !.keys = r.keys,
                           !.wrapped = r.wrapped, !.max_calls = r.max_calls,
                           !.touched = @ \cup Changed(st.receivers, r.receivers)]}
      [] stmt.op = "disconnect" ->
            LET sigs == SignalsIn(st.receivers, st.keys, st.wrapped, stmt.callback)
                R == DisconnectFromImpl(st.receivers, st.wrapped, stmt.callback, sigs)
            IN {[st EXCEPT !.receivers = R, !.keys = TouchAll(@, sigs),
                           !.touched = @ \cup Changed(st.receivers, R)]}
      [] stmt.op = "disconnect_from" ->
            LET R == DisconnectFromImpl(st.receivers, st.wrapped, stmt.callback,
                                        <<stmt.signal>>)
            IN {[st EXCEPT !.receivers = R, !.keys = Touch(@, stmt.signal),
                           !.touched = @ \cup Changed(st.receivers, R)]}
      [] stmt.op = "clear" ->
            LET R == ClearImpl(st.receivers, <<stmt.signal>>)
            IN {[st EXCEPT !.receivers = R, !.keys = Touch(@, stmt.signal),
                           !.touched = @ \cup Changed(st.receivers, R)]}

\* the calls of a body in turn; an exception ends the body
ExecBody(body, st, bodies, depth) ==
    IF body = <<>> \/ st.exc # "none" THEN {st}
    ELSE UNION {ExecBody(Tail(body), o, bodies, depth) :
                   o \in ExecStmt(Head(body), st, bodies, depth)}

\* the wrapper lowering the counter after the callback has returned
CallWrapperDecrementAfter(fn, st, bodies, depth) ==
    LET callback == st.wrapped[fn.id] IN
    IF Allows(st.max_calls[callback])
    THEN UNION {{IF o.exc # "none" THEN o
                 ELSE [o EXCEPT !.max_calls[callback] = Decrement(@)] :
                    o \in ExecBody(bodies[callback], e, bodies, depth)} :
                   e \in {[st EXCEPT !.runs[callback] = @ + 1]}}
    ELSE {st}

\* wrapper(*args): lines 100-104, the callback running its body
CallWrapper(fn, st, bodies, depth) ==
    LET callback == st.wrapped[fn.id] IN
    IF Allows(st.max_calls[callback])
    THEN UNION {ExecBody(bodies[callback], e, bodies, depth) :
                   e \in {[st EXCEPT !.max_calls[callback] = Decrement(@),
                                     !.runs[callback] = @ + 1]}}
    ELSE {st}

\* emit iterating over a copy of the set taken when it starts
IterateCopy(signal, used, snapshot, seen, st, bodies, depth) ==
    LET rest == snapshot \ seen IN
    IF rest = {} THEN {st}
    ELSE UNION {UNION {IF o.exc # "none" THEN {o}
                       ELSE IterateCopy(signal, used, snapshot, seen \cup {fn},
                                        o, bodies, depth) :
                          o \in CallWrapper(fn, st, bodies, depth)} :
                   fn \in rest}

\* for callback in _receivers[signal]: callback(...) over the live set.  Each
\* step of the set's iterator raises RuntimeError when the set's size is not the
\* size it had when the loop began; otherwise it yields a wrapper not yet
\* yielded, in no particular order, or ends when there is none.  When the set
\* holds other wrappers than at the start (as many added as removed), which of
\* them are yielded depends on the set's layout: any may be, or none.
Iterate(signal, used, snapshot, seen, st, bodies, depth) ==
    LET cur == st.receivers[signal]
        rest == cur \ seen
    IN
    IF Cardinality(cur) # used THEN {[st EXCEPT !.exc = "RuntimeError"]}
    ELSE (IF rest = {} \/ cur # snapshot THEN {st} ELSE {})
         \cup UNION {UNION {IF o.exc # "none" THEN {o}
                            ELSE Iterate(signal, used, snapshot, seen \cup {fn},
                                         o, bodies, depth) :
                               o \in CallWrapper(fn, st, bodies, depth)} :
                        fn \in rest}

\* emit(signal) entered at nesting depth `depth`
EmitIn(signal, st, bodies, depth) ==
    IF depth > RecursionLimit THEN {[st EXCEPT !.exc = "RecursionError"]}
    ELSE UNION {Iterate(signal, Cardinality(e.receivers[signal]),
                        e.receivers[signal], {}, e, bodies, depth) :
                   e \in {Entered(signal, st, depth)}}

(* ----------------------- bookkeeping of calls -------------------------- *)
Bool(b) == [kind |-> "bool", b |-> b]
Tuple(q) == [kind |-> "tuple", items |-> q]

\* the registry as a call finds it
Pre == [receivers |-> receivers, keys |-> keys, wrapped |-> wrapped,
        max_calls |-> max_calls]

NoCall == [op |-> "init", signals |-> List(<<>>), callback |-> None, n |-> None,
           first |-> None, args |-> "", pre |-> Pre,
           result |-> "ok", ret |-> None, log |-> <<>>,
           bodies |-> NoBodies, runs |-> [c \in Functions |-> 0],
           touched |-> {}, deepest |-> 0]

Existing == Functions \cup {Wr(i) : i \in 1..Len(wrapped)}

\* fn is c, or a wrapper that delegates to c through a chain of wrappers
RECURSIVE Reaches(_, _, _)
Reaches(W, fn, c) ==
    \/ fn = c
    \/ /\ fn.kind = "wrapper"
       /\ Reaches(W, W[fn.id], c)

\* the number of times c was called in the course of one emit
CallsTo(log, c) ==
    Cardinality({ij \in {<<i, j>> : i \in 1..Len(log), j \in 1..MaxWrappers + 1} :
                    /\ ij[2] <= Len(log[ij[1]].calls)
                    /\ log[ij[1]].calls[ij[2]].fn = c})

\* a registration of callback for one signal with an integer budget, made when
\* no registered wrapper delegates to callback, opens a scenario
Opens(r, sigs, callback, n) ==
    /\ r.result = "ok"
    /\ r.ret.kind = "wrapper"
    /\ Len(AsList(sigs)) = 1
    /\ n.kind = "int"
    /\ \A s \in SignalIds : \A fn \in receivers[s] : ~Reaches(wrapped, fn, callback)

\* a registration of callback for several signals with an integer budget, made
\* when no registered wrapper delegates to callback, opens a count of the runs
\* of callback by the signal emitted
OpensShared(r, sigs, callback, n) ==
    /\ r.result = "ok"
    /\ r.ret.kind = "wrapper"
    /\ Len(AsList(sigs)) > 1
    /\ n.kind = "int"
    /\ \A s \in SignalIds : \A fn \in receivers[s] : ~Reaches(wrapped, fn, callback)

Scenario(r, sigs, callback, n) ==
    IF Opens(r, sigs, callback, n)
    THEN [kind |-> "scenario", callback |-> callback, signal |-> AsList(sigs)[1],
          n |-> n.n, wrapper |-> r.ret, hist |-> <<>>, otherRaised |-> FALSE]
    ELSE IF OpensShared(r, sigs, callback, n)
    THEN [kind |-> "shared", callback |-> callback, signals |-> Range(AsList(sigs)),
          n |-> n.n, wrapper |-> r.ret, runs |-> [s \in SignalIds |-> 0]]
    ELSE NoScenario

RECURSIVE SumOver(_, _)
SumOver(f, S) ==
    IF S = {} THEN 0
    ELSE LET s == CHOOSE x \in S : TRUE IN f[s] + SumOver(f, S \ {s})

\* the runs of the callback counted so far, over all signals
TotalRuns(sc) == SumOver(sc.runs, SignalIds)

\* the effect of a call of on / once / a decorator on the registry
Registers(r) ==
    /\ callable(r.ret) => Len(wrapped) < MaxWrappers
    /\ receivers' = r.receivers
    /\ keys' = r.keys
    /\ wrapped' = r.wrapped
    /\ max_calls' = r.max_calls

(* ------------------------------ actions ------------------------------- *)
Init ==
    /\ receivers = [s \in SignalIds |-> {}]
    /\ keys = <<>>
    /\ wrapped = <<>>
    /\ max_calls = [c \in Functions |-> NoAttr]
    /\ last = [op |-> "init", signals |-> List(<<>>), callback |-> None, n |-> None,
               first |-> None, args |-> "",
               pre |-> [receivers |-> [s \in SignalIds |-> {}], keys |-> <<>>,
                        wrapped |-> <<>>, max_calls |-> [c \in Functions |-> NoAttr]],
               result |-> "ok", ret |-> None, log |-> <<>>,
               bodies |-> NoBodies, runs |-> [c \in Functions |-> 0],
               touched |-> {}, deepest |-> 0]
    /\ sole = NoScenario

\* on(signals, callback, max_calls=n)
On(sigs, callback, n) ==
    LET r == OnCall(receivers, keys, wrapped, max_calls, sigs, callback, n) IN
    /\ Registers(r)
    /\ last' = [NoCall EXCEPT !.op = "on", !.signals = sigs, !.callback = callback,
                              !.n = n, !.result = r.result, !.ret = r.ret]
    /\ sole' = Scenario(r, sigs, callback, n)

\* on(signals, first, max_calls=n)(callback), first being None or an integer
OnDecorator(sigs, first, n, callback) ==
    LET p == OnCall(receivers, keys, wrapped, max_calls, sigs, first, n).ret
        r == CallPartial(receivers, keys, wrapped, max_calls, p, callback)
    IN
    /\ Registers(r)
    /\ last' = [NoCall EXCEPT !.op = "on()", !.signals = sigs, !.callback = callback,
                              !.n = n, !.first = first, !.result = r.result, !.ret = r.ret]
    /\ sole' = Scenario(r, sigs, callback, p.max_calls)

\* once(signals, callback)
Once(sigs, callback) ==
    LET r == OnceCall(receivers, keys, wrapped, max_calls, sigs, callback) IN
    /\ Registers(r)
    /\ last' = [NoCall EXCEPT !.op = "once", !.signals = sigs, !.callback = callback,
                              !.n = IntV(1), !.result = r.result, !.ret = r.ret]
    /\ sole' = Scenario(r, sigs, callback, IntV(1))

\* once(signals, first)(callback), first being None or an integer
OnceDecorator(sigs, first, callback) ==
    LET p == OnceCall(receivers, keys, wrapped, max_calls, sigs, first).ret
        r == CallPartial(receivers, keys, wrapped, max_calls, p, callback)
    IN
    /\ Registers(r)
    /\ last' = [NoCall EXCEPT !.op = "once()", !.signals = sigs, !.callback = callback,
                              !.n = IntV(1), !.first = first, !.result = r.result, !.ret = r.ret]
    /\ sole' = Scenario(r, sigs, callback, p.max_calls)

\* the scenario after an emit whose outcome is r
AfterEmit(signal, r) ==
    IF /\ sole.kind = "scenario"
       /\ sole.signal = signal
       /\ Len(sole.hist) < MaxEmits
    THEN [sole EXCEPT
             !.hist = Append(@, CallsTo(r.log, sole.callback)),
             !.otherRaised = @ \/ (r.raised
                                     /\ r.log[Len(r.log)].wrapper # sole.wrapper)]
    ELSE IF /\ sole.kind = "shared"
            /\ signal \in sole.signals
            /\ TotalRuns(sole) <= sole.n
    THEN [sole EXCEPT !.runs[signal] = @ + CallsTo(r.log, sole.callback)]
    ELSE NoScenario

\* emit dropping from the set the wrappers whose budget is used up
EmitDroppingExhausted(signal, args, order, raising) ==
    LET r == Deliver(order, 1, args, raising, wrapped, max_calls, <<>>) IN
    /\ order \in Orders(EmitTargets(receivers, signal))
    /\ receivers' = [receivers EXCEPT ![signal] =
                        {fn \in @ : r.max_calls[wrapped[fn.id]] # IntV(0)}]
    /\ keys' = Touch(keys, signal)
    /\ wrapped' = wrapped
    /\ max_calls' = r.max_calls
    /\ last' = [NoCall EXCEPT !.op = "emit", !.signals = Scalar(signal), !.args = args,
                              !.result = IF r.raised THEN "raised" ELSE "ok",
                              !.log = r.log]
    /\ sole' = AfterEmit(signal, r)

\* emit looking the signal up without adding an entry for it
EmitWithoutEntry(signal, args, order, raising) ==
    LET r == Deliver(order, 1, args, raising, wrapped, max_calls, <<>>) IN
    /\ order \in Orders(EmitTargets(receivers, signal))
    /\ receivers' = receivers
    /\ keys' = keys
    /\ wrapped' = wrapped
    /\ max_calls' = r.max_calls
    /\ last' = [NoCall EXCEPT !.op = "emit", !.signals = Scalar(signal), !.args = args,
                              !.result = IF r.raised THEN "raised" ELSE "ok",
                              !.log = r.log]
    /\ sole' = AfterEmit(signal, r)

\* emit(signal, args): the set is iterated in `order`; the functions in
\* `raising` raise when they run
Emit(signal, args, order, raising) ==
    LET r == Deliver(order, 1, args, raising, wrapped, max_calls, <<>>) IN
    /\ order \in Orders(EmitTargets(receivers, signal))
    /\ receivers' = receivers
    /\ keys' = Touch(keys, signal)
    /\ wrapped' = wrapped
    /\ max_calls' = r.max_calls
    /\ last' = [NoCall EXCEPT !.op = "emit", !.signals = Scalar(signal), !.args = args,
                              !.result = IF r.raised THEN "raised" ELSE "ok",
                              !.log = r.log]
    /\ sole' = AfterEmit(signal, r)

\* responds_to(callback, signal)
RespondsTo(callback, signal) ==
    /\ keys' = Touch(keys, signal)
    /\ last' = [NoCall EXCEPT !.op = "responds_to", !.signals = Scalar(signal),
                              !.ret = Bool(responds_to(callback, signal))]
    /\ sole' = NoScenario
    /\ UNCHANGED <<receivers, wrapped, max_calls>>

\* signals(callback)
Signals(callback) ==
    /\ last' = [NoCall EXCEPT !.op = "signals", !.ret = Tuple(signals(callback))]
    /\ sole' = NoScenario
    /\ UNCHANGED <<receivers, keys, wrapped, max_calls>>

\* disconnect_from(callback, signals)
DisconnectFrom(callback, sigs) ==
    /\ receivers' = DisconnectFromImpl(receivers, wrapped, callback, AsList(sigs))
    /\ keys' = TouchAll(keys, AsList(sigs))
    /\ last' = [NoCall EXCEPT !.op = "disconnect_from", !.signals = sigs,
                              !.callback = callback]
    /\ sole' = NoScenario
    /\ UNCHANGED <<wrapped, max_calls>>

\* disconnect handing the tuple of signals on as if it were one signal
DisconnectTupleAsSignal(callback) ==
    /\ last' = [NoCall EXCEPT !.op = "disconnect", !.callback = callback]
    /\ sole' = NoScenario
    /\ UNCHANGED <<receivers, keys, wrapped, max_calls>>

\* disconnect(callback): disconnect_from(callback, signals(callback))
Disconnect(callback) ==
    /\ receivers' = DisconnectFromImpl(receivers, wrapped, callback, signals(callback))
    /\ keys' = TouchAll(keys, signals(callback))
    /\ last' = [NoCall EXCEPT !.op = "disconnect", !.callback = callback]
    /\ sole' = NoScenario
    /\ UNCHANGED <<wrapped, max_calls>>

\* clear deleting the entries instead of emptying them
ClearDeletingKeys(sigs) ==
    /\ receivers' = ClearImpl(receivers, sigs)
    /\ keys' = SelectSeq(keys, LAMBDA s : s \notin Range(sigs))
    /\ last' = [NoCall EXCEPT !.op = "clear", !.signals = List(sigs)]
    /\ sole' = NoScenario
    /\ UNCHANGED <<wrapped, max_calls>>

\* clear(*signals)
Clear(sigs) ==
    /\ receivers' = ClearImpl(receivers, sigs)
    /\ keys' = TouchAll(keys, sigs)
    /\ last' = [NoCall EXCEPT !.op = "clear", !.signals = List(sigs)]
    /\ sole' = NoScenario
    /\ UNCHANGED <<wrapped, max_calls>>

\* clear_all leaving its loop after the first key
ClearFirstKey ==
    /\ receivers' = ClearImpl(receivers, IF keys = <<>> THEN <<>> ELSE <<Head(keys)>>)
    /\ last' = [NoCall EXCEPT !.op = "clear_all"]
    /\ sole' = NoScenario
    /\ UNCHANGED <<keys, wrapped, max_calls>>

\* clear_all(): for key in _receivers.keys(): _receivers[key].clear()
ClearAll ==
    /\ receivers' = ClearImpl(receivers, keys)
    /\ last' = [NoCall EXCEPT !.op = "clear_all"]
    /\ sole' = NoScenario
    /\ UNCHANGED <<keys, wrapped, max_calls>>

\* emit(signal) with callbacks that run the given bodies, ending in one of the
\* outcomes the iteration order allows; the callbacks' calls are followed for
\* one emit at a time, the next one coming after a registration
EmitReentrant(signal, bodies) ==
    /\ Len(wrapped) <= MaxWrappers
    /\ last.op # "emit"
    /\ \E o \in EmitIn(signal, Running(receivers, keys, wrapped, max_calls), bodies, 1) :
          /\ receivers' = o.receivers
          /\ keys' = o.keys
          /\ wrapped' = o.wrapped
          /\ max_calls' = o.max_calls
          /\ last' = [NoCall EXCEPT !.op = "emit", !.signals = Scalar(signal),
                                    !.result = IF o.exc = "none" THEN "ok" ELSE o.exc,
                                    !.bodies = bodies, !.runs = o.runs,
                                    !.touched = o.touched, !.deepest = o.deepest]
    /\ sole' = NoScenario

\* the registry driven with functions as callbacks
Next ==
    \/ \E sigs \in SignalArgs, callback \in Functions, n \in MaxCallsVals :
          On(sigs, callback, n)
    \/ \E sigs \in SignalArgs, callback \in Functions : Once(sigs, callback)
    \/ \E signal \in SignalIds, args \in Args, raising \in SUBSET Functions :
          \E order \in Orders(EmitTargets(receivers, signal)) :
             Emit(signal, args, order, raising)
    \/ \E callback \in Existing, signal \in SignalIds : RespondsTo(callback, signal)
    \/ \E callback \in Existing : Signals(callback)
    \/ \E callback \in Existing, sigs \in SignalArgs : DisconnectFrom(callback, sigs)
    \/ \E callback \in Existing : Disconnect(callback)
    \/ \E sigs \in SignalLists : Clear(sigs)
    \/ ClearAll

Spec == Init /\ [][Next]_vars

\* the calling conventions of on and once, with any value in the callback
\* position, over the registries that registering produces
CallSignalArgs == {Scalar("a"), List(<<"a", "b">>)}

NextCalls ==
    \/ \E sigs \in CallSignalArgs, callback \in Functions \cup NonCallables,
          n \in MaxCallsVals : On(sigs, callback, n)
    \/ \E sigs \in CallSignalArgs, d \in Decorations,
          callback \in Functions \cup NonCallables :
             OnDecorator(sigs, d[1], d[2], callback)
    \/ \E sigs \in CallSignalArgs, callback \in Functions \cup NonCallables :
          Once(sigs, callback)
    \/ \E sigs \in CallSignalArgs, first \in {None} \cup Ints,
          callback \in Functions \cup NonCallables :
             OnceDecorator(sigs, first, callback)

SpecCalls == Init /\ [][NextCalls]_vars

\* registrations, and emits to callbacks that call the registry themselves
NextReentrant ==
    \/ \E sigs \in CallSignalArgs, callback \in Functions, n \in MaxCallsVals :
          On(sigs, callback, n)
    \/ \E callback \in Existing : Disconnect(callback)
    \/ \E signal \in SignalIds, bodies \in [Functions -> Bodies] :
          EmitReentrant(signal, bodies)

SpecReentrant == Init /\ [][NextReentrant]_vars

TypeOK ==
    /\ \A s \in SignalIds : receivers[s] \subseteq {Wr(i) : i \in 1..Len(wrapped)}
    /\ \A s \in SignalIds : receivers[s] # {} => s \in Range(keys)
    /\ Len(wrapped) <= MaxWrappers

(* ------------------------------ claims -------------------------------- *)
AllSignals(sigs) == Range(AsList(sigs))

\* responds_to and signals in the registry the last call found
RespondedTo(callback, signal) ==
    RespondsIn(last.pre.receivers, last.pre.wrapped, callback, signal)

SignalsBefore(callback) ==
    SignalsIn(last.pre.receivers, last.pre.keys, last.pre.wrapped, callback)

RegistryUnchanged ==
    /\ receivers = last.pre.receivers
    /\ keys = last.pre.keys
    /\ wrapped = last.pre.wrapped
    /\ max_calls = last.pre.max_calls

\* C1: right after on(signals, c, max_calls) or once(signals, c) has returned
\* wrapper w, for every signal s of `signals`: responds_to(c, s) and
\* responds_to(w, s) are true and signals(c) contains s.
C1_RespondsAfterOn ==
    (last.op \in {"on", "once"} /\ last.ret.kind = "wrapper") =>
        \A s \in AllSignals(last.signals) :
            /\ responds_to(last.callback, s)
            /\ responds_to(last.ret, s)
            /\ s \in Range(signals(last.callback))

\* C1 witness: on(['a', 'b'], g, max_calls=0) in a registry that held a
\* registration of f on 'a' and did not know g
C1_Witness ==
    /\ last.op = "on"
    /\ last.signals = List(<<"a", "b">>)
    /\ last.callback = Fn("g")
    /\ last.n = IntV(0)
    /\ last.ret = Wr(2)
    /\ last.pre.receivers["a"] = {Wr(1)}
    /\ ~RespondedTo(Fn("g"), "b")
    /\ responds_to(Fn("g"), "b")

\* C2: an emit(s, args) in which no callback raises calls each wrapper that was
\* in s's set exactly once, with the arguments given to emit (which the wrapper
\* passes on unchanged), and calls nothing else.
C2_EmitCallsEachOnce ==
    (last.op = "emit" /\ last.result = "ok") =>
        LET before == last.pre.receivers[last.signals.sig]
            log == last.log
        IN /\ \A fn \in before :
                 Cardinality({i \in 1..Len(log) : log[i].wrapper = fn}) = 1
           /\ \A i \in 1..Len(log) :
                 /\ log[i].wrapper \in before
                 /\ log[i].args = last.args
                 /\ \A j \in 1..Len(log[i].calls) : log[i].calls[j].args = last.args

\* C2 witness: an emit('a', 'y') that called the one wrapper of 'a' while
\* another wrapper was registered for 'b' only
C2_Witness ==
    /\ last.op = "emit"
    /\ last.result = "ok"
    /\ last.signals = Scalar("a")
    /\ last.args = "y"
    /\ last.pre.receivers = [s \in SignalIds |-> IF s = "a" THEN {Wr(1)} ELSE {Wr(2)}]
    /\ Len(last.log) = 1
    /\ Len(last.log[1].calls) = 1

\* the k-th emit of a scenario runs the callback once when k <= n, not at all
\* when k > n
FirstEmitsOnly(sc) ==
    \A k \in 1..Len(sc.hist) : sc.hist[k] = (IF k <= sc.n THEN 1 ELSE 0)

C4_EmitKeepsRegistrations ==
    last.op = "emit" =>
        /\ receivers = last.pre.receivers
        /\ \A c \in Callables, s \in SignalIds : responds_to(c, s) = RespondedTo(c, s)

\* C4 witness: an emit called a wrapper whose budget was 0 already; it did not
\* delegate, is still registered, and its callback still responds
C4_Witness ==
    /\ last.op = "emit"
    /\ \E i \in 1..Len(last.log) :
          LET fn == last.log[i].wrapper IN
          /\ last.pre.max_calls[wrapped[fn.id]] = IntV(0)
          /\ last.log[i].calls = <<>>
          /\ fn \in receivers[last.signals.sig]
          /\ responds_to(wrapped[fn.id], last.signals.sig)

\* C5: after disconnect_from(c, signals): responds_to(c, s) is false for each s
\* of `signals`; the set of every other signal is as it was, and so is every
\* answer of responds_to for it; and every wrapper of such an s that neither is
\* c nor wraps c is still in s's set.
C5_DisconnectFromOnlyThere ==
    last.op = "disconnect_from" =>
        LET c == last.callback
            there == AllSignals(last.signals)
        IN /\ \A s \in there : ~responds_to(c, s)
           /\ \A s \in SignalIds \ there :
                 /\ receivers[s] = last.pre.receivers[s]
                 /\ \A d \in Callables : responds_to(d, s) = RespondedTo(d, s)
           /\ \A s \in there : \A fn \in last.pre.receivers[s] :
                 ~Matches(wrapped, c, fn) => fn \in receivers[s]

\* C5 witness: f was registered twice for 'a' and 'b'; disconnect_from(f, 'a')
\* took both wrappers from 'a' and left them on 'b'
C5_Witness ==
    /\ last.op = "disconnect_from"
    /\ last.callback = Fn("f")
    /\ last.signals = Scalar("a")
    /\ wrapped = <<Fn("f"), Fn("f")>>
    /\ last.pre.receivers["a"] = {Wr(1), Wr(2)}
    /\ receivers["a"] = {}
    /\ receivers["b"] = {Wr(1), Wr(2)}
    /\ responds_to(Fn("f"), "b")

\* C5 witness of the third part: disconnect_from(f, 'a') with g registered for
\* 'a' as well; g's wrapper stays
C5_WitnessOther ==
    /\ last.op = "disconnect_from"
    /\ last.callback = Fn("f")
    /\ last.signals = Scalar("a")
    /\ wrapped = <<Fn("f"), Fn("g")>>
    /\ last.pre.receivers["a"] = {Wr(1), Wr(2)}
    /\ receivers["a"] = {Wr(2)}

\* d is c, a wrapper of c, or the callback that wrapper c wraps
Related(c, d) ==
    d = c \/ WrappedOf(wrapped, d) = c \/ WrappedOf(wrapped, c) = d

\* C6 as stated: after disconnect(c), signals(c) is empty and signals(d) is as
\* it was for every other callable d.
C6_DisconnectKeepsOthers ==
    last.op = "disconnect" =>
        /\ signals(last.callback) = <<>>
        /\ \A s \in SignalIds : ~responds_to(last.callback, s)
        /\ \A d \in Existing \ {last.callback} : signals(d) = SignalsBefore(d)

\* C6 amended: after disconnect(c), signals(c) is empty and signals(d) is as it
\* was for every callable d that is not c, not a wrapper of c and not the
\* callback that c (when c is a wrapper) wraps.
C6_DisconnectKeepsUnrelated ==
    last.op = "disconnect" =>
        /\ signals(last.callback) = <<>>
        /\ \A s \in SignalIds : ~responds_to(last.callback, s)
        /\ \A d \in Existing :
              ~Related(last.callback, d) => signals(d) = SignalsBefore(d)

\* C6 witness: f and g each responded to both signals; after disconnect(f) the
\* wrapper of f is in no set and g still responds to both
C6_Witness ==
    /\ last.op = "disconnect"
    /\ last.callback = Fn("f")
    /\ wrapped = <<Fn("f"), Fn("g")>>
    /\ Len(SignalsBefore(Fn("f"))) = 2
    /\ \A s \in SignalIds : receivers[s] = {Wr(2)}
    /\ signals(Fn("f")) = <<>>
    /\ Len(signals(Fn("g"))) = 2

\* C7: after clear(s1, ..., sk) the set of each si is empty and the set of
\* every other signal is as it was.
C7_ClearOnlyGiven ==
    last.op = "clear" =>
        /\ \A s \in AllSignals(last.signals) : receivers[s] = {}
        /\ \A s \in SignalIds \ AllSignals(last.signals) :
              receivers[s] = last.pre.receivers[s]

\* C7 witness: clear('a') took the wrappers of 'a' and left the one of 'b'
C7_Witness ==
    /\ last.op = "clear"
    /\ last.signals = List(<<"a">>)
    /\ last.pre.receivers["a"] = {Wr(1), Wr(2)}
    /\ last.pre.receivers["b"] = {Wr(2)}
    /\ receivers["a"] = {}
    /\ receivers["b"] = {Wr(2)}

\* C8: after clear_all() every known signal maps to the empty set, signals(c)
\* is empty for every callable, and an emit that follows calls nothing.
C8_ClearAllEmptiesAll ==
    last.op = "clear_all" =>
        /\ \A s \in Range(keys) : receivers[s] = {}
        /\ \A c \in Callables : signals(c) = <<>>
        /\ \A c \in Callables, s \in SignalIds : ~responds_to(c, s)
        /\ \A s \in SignalIds, args \in Args, raising \in SUBSET Functions :
              \A order \in Orders(EmitTargets(receivers, s)) :
                 Deliver(order, 1, args, raising, wrapped, max_calls, <<>>).log = <<>>

\* C8 witness: clear_all() in a registry in which both signals had wrappers
C8_Witness ==
    /\ last.op = "clear_all"
    /\ last.pre.receivers["a"] = {Wr(1), Wr(2)}
    /\ last.pre.receivers["b"] = {Wr(2)}
    /\ \A s \in SignalIds : receivers[s] = {}

\* C9: a callback that raises during emit(s) ends the emit with that error: the
\* call that raised is the last call of the emit, so the wrappers not yet called
\* are not called; every signal's set is as before the emit.
C9_RaiseEndsEmit ==
    last.op = "emit" =>
        LET log == last.log IN
        /\ \A i \in 1..Len(log) :
              log[i].raised => (i = Len(log) /\ last.result = "raised")
        /\ last.result = "raised" =>
              /\ Len(log) >= 1
              /\ log[Len(log)].raised
              /\ \A i, j \in 1..Len(log) : log[i].wrapper = log[j].wrapper => i = j
              /\ \A i \in 1..Len(log) :
                    log[i].wrapper \in last.pre.receivers[last.signals.sig]
        /\ receivers = last.pre.receivers

\* C9 witness: an emit over two wrappers in which the first one called raised
C9_Witness ==
    /\ last.op = "emit"
    /\ last.result = "raised"
    /\ Len(last.log) = 1
    /\ Cardinality(last.pre.receivers[last.signals.sig]) = 2
    /\ Cardinality(receivers[last.signals.sig]) = 2

\* a non-callable value was given as the callback: to on / once directly (None
\* there means that no callback was given), or to the decorator they returned
NonCallableGiven ==
    /\ last.op \in {"on", "once", "on()", "once()"}
    /\ ~callable(last.callback)
    /\ last.op \in {"on", "once"} => last.callback # None

\* C10: registering a non-callable value fails with an AssertionError and
\* leaves the registry as it was.
C10_NonCallableFails ==
    NonCallableGiven => (last.result = "AssertionError" /\ RegistryUnchanged)

\* What holds of the code: a non-callable value never changes the registry; it
\* fails with an AssertionError in the decorator form, and in the direct form
\* unless it is an integer, which on takes for max_calls.
NonCallableNeverRegisters ==
    NonCallableGiven =>
        /\ RegistryUnchanged
        /\ (last.op \in {"on()", "once()"} \/ ~isinstance_int(last.callback))
              => last.result = "AssertionError"
        /\ (last.op \in {"on", "once"} /\ isinstance_int(last.callback))
              => /\ last.result = "ok"
                 /\ last.ret = Partial(last.signals, last.callback)

\* every signal's set and every callback's remaining-call counter are as the
\* last call found them
SetsAndCountersUnchanged ==
    /\ receivers = last.pre.receivers
    /\ max_calls = last.pre.max_calls

\* the last call was applied to a signal or callback without registrations
OnNothingRegistered ==
    \/ /\ last.op = "emit"
       /\ last.pre.receivers[last.signals.sig] = {}
    \/ last.op \in {"responds_to", "signals"} /\ last.ret \in {Bool(FALSE), Tuple(<<>>)}
    \/ /\ last.op = "disconnect_from"
       /\ \A s \in AllSignals(last.signals) : ~RespondedTo(last.callback, s)
    \/ /\ last.op = "disconnect"
       /\ SignalsBefore(last.callback) = <<>>
    \/ /\ last.op = "clear"
       /\ \A s \in AllSignals(last.signals) : last.pre.receivers[s] = {}

\* C11: emit, responds_to, signals, disconnect, disconnect_from and clear applied
\* to a signal or callback that has no registrations do not raise, call nothing,
\* and leave every signal's set and every remaining-call counter as they were.
C11_AbsentIsNoOp ==
    OnNothingRegistered =>
        /\ last.result = "ok"
        /\ last.log = <<>>
        /\ SetsAndCountersUnchanged

\* C11 witness: disconnect_from(g, ['a', 'b']) while only f was registered, for
\* both signals with one call left; nothing changed
C11_Witness ==
    /\ last.op = "disconnect_from"
    /\ last.callback = Fn("g")
    /\ last.signals = List(<<"a", "b">>)
    /\ wrapped = <<Fn("f")>>
    /\ receivers = [s \in SignalIds |-> {Wr(1)}]
    /\ max_calls[Fn("f")] = IntV(1)

\* C11 witness for emit: emit of a signal without registrations while the other
\* signal had one
C11_WitnessEmit ==
    /\ last.op = "emit"
    /\ last.pre.receivers[last.signals.sig] = {}
    /\ \E s \in SignalIds : receivers[s] # {}
    /\ last.log = <<>>

\* the budget a decorator call registers with: on(signals, k)(c) gives k,
\* on(signals, max_calls=n)(c) gives n, once(signals)(c) gives 1
DecoratorBudget ==
    IF isinstance_int(last.first) THEN last.first ELSE last.n

\* the direct call on(signals, c, max_calls=n) made in the registry the last
\* call found
DirectCall(n) ==
    OnCall(last.pre.receivers, last.pre.keys, last.pre.wrapped, last.pre.max_calls,
           last.signals, last.callback, n)

SameOutcome(r) ==
    /\ last.result = r.result
    /\ last.ret = r.ret
    /\ receivers = r.receivers
    /\ keys = r.keys
    /\ wrapped = r.wrapped
    /\ max_calls = r.max_calls

\* C12: for a callable c, on(signals, max_calls=n)(c) and on(signals, n)(c)
\* leave the registry and c's budget as on(signals, c, max_calls=n) does from
\* the same state and return the same wrapper; once(signals)(c) and
\* once(signals, c) do as on(signals, c, max_calls=1) does.
C12_ModesEquivalent ==
    callable(last.callback) =>
        /\ last.op = "on()" => SameOutcome(DirectCall(DecoratorBudget))
        /\ (last.op = "once()" /\ last.first = None) => SameOutcome(DirectCall(IntV(1)))
        /\ last.op = "once" => SameOutcome(DirectCall(IntV(1)))

\* C12 witness: on(['a', 'b'], 2)(f) where f was registered with another
\* budget; the new wrapper is on both signals and f's budget is 2
C12_Witness ==
    /\ last.op = "on()"
    /\ last.first = IntV(MaxCallsArg)
    /\ last.signals = List(<<"a", "b">>)
    /\ last.callback = Fn("f")
    /\ last.pre.wrapped = <<Fn("f")>>
    /\ last.pre.max_calls[Fn("f")] = IntV(0)
    /\ last.ret = Wr(2)
    /\ max_calls[Fn("f")] = IntV(MaxCallsArg)
    /\ \A s \in SignalIds : Wr(2) \in receivers[s]

\* the remaining-call counter that wrapper i reads, in a registry with wrappers
\* W and budgets mc
CounterOf(W, mc, i) == mc[W[i]]

\* the counter of a wrapper the last call found, then and now
CounterBefore(i) == CounterOf(last.pre.wrapped, last.pre.max_calls, i)
CounterNow(i) == CounterOf(wrapped, max_calls, i)

\* C13: each registration has its own remaining-call counter: no operation
\* moves a counter away from zero once it is there, and a call of on / once
\* leaves the counter of every earlier registration as it was.
C13_OwnCounter ==
    \A i \in 1..Len(last.pre.wrapped) :
        /\ CounterBefore(i) = IntV(0) => CounterNow(i) = IntV(0)
        /\ last.op \in {"on", "once"} => CounterNow(i) = CounterBefore(i)

\* What holds of the code: the counter is an attribute of the callback, shared
\* by all its wrappers; only a registration of that callback sets it anew
\* and only an emit lowers it.
CounterSharedByCallback ==
    \A i \in 1..Len(last.pre.wrapped) :
        \/ CounterNow(i) = CounterBefore(i)
        \/ /\ last.op \in {"on", "once"}
           /\ last.callback = wrapped[i]
           /\ CounterNow(i) = last.n
        \/ /\ last.op = "emit"
           /\ CounterBefore(i).kind = "int"
           /\ CounterNow(i).kind = "int"
           /\ CounterNow(i).n < CounterBefore(i).n

\* the wrappers of callback c in a set S
WrappersOf(W, S, c) == {fn \in S : WrappedOf(W, fn) = c}

\* every call of on / once that registers adds one wrapper that no set held
AddsFreshWrapper ==
    (last.op \in {"on", "once"} /\ last.ret.kind = "wrapper") =>
        /\ \A s \in SignalIds : last.ret \notin last.pre.receivers[s]
        /\ \A s \in AllSignals(last.signals) :
              /\ receivers[s] = last.pre.receivers[s] \cup {last.ret}
              /\ Cardinality(WrappersOf(wrapped, receivers[s], last.callback))
                    = Cardinality(WrappersOf(wrapped, last.pre.receivers[s],
                                             last.callback)) + 1

\* an emit of s runs an unlimited callback once for each of its wrappers on s
RunsOncePerWrapper ==
    \A c \in Functions :
        last.pre.max_calls[c] = None =>
            CallsTo(last.log, c)
               = Cardinality(WrappersOf(wrapped, last.pre.receivers[last.signals.sig], c))

\* removing one wrapper of c from s leaves c responding to s exactly when
\* another wrapper of c is left on s
RespondsUntilAllRemoved ==
    (last.op = "disconnect_from" /\ last.callback.kind = "wrapper") =>
        LET c == wrapped[last.callback.id] IN
        \A s \in AllSignals(last.signals) :
            responds_to(c, s)
               = (WrappersOf(wrapped, last.pre.receivers[s], c) \ {last.callback} # {})

C14_WitnessRemoved ==
    /\ last.op = "disconnect_from"
    /\ last.callback = Wr(1)
    /\ last.signals = Scalar("a")
    /\ wrapped = <<Fn("f"), Fn("f")>>
    /\ last.pre.receivers["a"] = {Wr(1), Wr(2)}
    /\ receivers["a"] = {Wr(2)}
    /\ responds_to(Fn("f"), "a")

\* C15: no operation removes a key of the registry: the keys the last call
\* found are still there, in their order, and clear and clear_all leave the
\* keys they empty mapped to the empty set.
C15_KeysNeverShrink ==
    /\ Len(last.pre.keys) <= Len(keys)
    /\ \A i \in 1..Len(last.pre.keys) : keys[i] = last.pre.keys[i]
    /\ last.op = "clear" =>
          \A s \in AllSignals(last.signals) : s \in Range(keys) /\ receivers[s] = {}
    /\ last.op = "clear_all" =>
          \A s \in Range(last.pre.keys) : s \in Range(keys) /\ receivers[s] = {}

\* C15 witness: clear('a', 'b') emptied two sets that held wrappers; both keys
\* are still known
C15_Witness ==
    /\ last.op = "clear"
    /\ last.signals = List(<<"a", "b">>)
    /\ \A s \in SignalIds : last.pre.receivers[s] # {}
    /\ \A s \in SignalIds : receivers[s] = {}
    /\ Len(last.pre.keys) = 2
    /\ keys = last.pre.keys

\* the last call looked up, without registering, signals the registry did not know
LookedUpUnknown ==
    /\ last.op \in {"emit", "responds_to", "disconnect_from", "clear"}
    /\ AllSignals(last.signals) \ Range(last.pre.keys) # {}

\* C16 as stated: only a registration creates a registry entry: emit,
\* responds_to, disconnect_from and clear on a signal that was never registered
\* leave the known signal identifiers as they were.
C16_OnlyRegistrationCreatesKeys ==
    LookedUpUnknown => keys = last.pre.keys

\* C16 amended: every operation that looks a signal up creates its entry: after
\* on, once, emit, responds_to, disconnect_from and clear the known identifiers
\* are those known before and the signals the call named, the entries created
\* without a registration are empty sets, and no set is changed by creating
\* them; signals, disconnect and clear_all create no entry.
C16_LookupCreatesKeys ==
    /\ last.op \in {"on", "once", "emit", "responds_to", "disconnect_from", "clear"} =>
          Range(keys) = Range(last.pre.keys) \cup AllSignals(last.signals)
    /\ last.op \in {"signals", "disconnect", "clear_all"} => keys = last.pre.keys
    /\ LookedUpUnknown =>
          /\ \A s \in AllSignals(last.signals) \ Range(last.pre.keys) : receivers[s] = {}
          /\ \A s \in Range(last.pre.keys) \ AllSignals(last.signals) :
                receivers[s] = last.pre.receivers[s]

\* C16 witness: with f registered for 'a' only, emit('b') made 'b' a key with
\* an empty set
C16_Witness ==
    /\ last.op = "emit"
    /\ last.signals = Scalar("b")
    /\ last.pre.keys = <<"a">>
    /\ keys = <<"a", "b">>
    /\ receivers["a"] # {}
    /\ receivers["b"] = {}

\* C17: a callback registered for several signals by one call
\* on([s1, ..., sk], c, max_calls=n) and then only emitted runs at most n times
\* in all, counted over the emits of all those signals.
C17_BudgetSharedBySignals ==
    sole.kind = "shared" => TotalRuns(sole) <= sole.n

\* C17 witness: on(['a', 'b'], c, max_calls=2); c ran once in an emit of 'a' and
\* once in an emit of 'b', and the emit after those called its wrapper without
\* running it
C17_Witness ==
    /\ sole.kind = "shared"
    /\ sole.n = 2
    /\ sole.runs = [s \in SignalIds |-> 1]
    /\ last.op = "emit"
    /\ \E i \in 1..Len(last.log) : last.log[i].wrapper = sole.wrapper
    /\ CallsTo(last.log, sole.callback) = 0

\* no emit from the present registry runs c
NeverRunsAgain(c) ==
    \A s \in SignalIds, args \in Args, raising \in SUBSET Functions :
        \A order \in Orders(EmitTargets(receivers, s)) :
            CallsTo(Deliver(order, 1, args, raising, wrapped, max_calls, <<>>).log, c) = 0

\* the callback whose error ended the last emit
Raiser == last.log[Len(last.log)].calls[1].fn

\* C18: the counter is lowered before the callback is called: every run of a
\* limited callback in an emit takes one unit of its budget, the run that raises
\* included; a callback that raises on its last unit (a once-registered one on
\* the first emit) is run by no later emit.
C18_RaiseConsumesBudget ==
    last.op = "emit" =>
        /\ \A c \in Functions :
              last.pre.max_calls[c].kind = "int" =>
                  max_calls[c] = IntV(last.pre.max_calls[c].n - CallsTo(last.log, c))
        /\ (last.result = "raised" /\ last.pre.max_calls[Raiser] = IntV(1)) =>
              /\ max_calls[Raiser] = IntV(0)
              /\ NeverRunsAgain(Raiser)

\* C18 witness: a callback registered with one call, next to another wrapper on
\* the signal, raised in the first emit after its registration and has no call
\* left
C18_Witness ==
    /\ last.op = "emit"
    /\ last.result = "raised"
    /\ sole.kind = "scenario"
    /\ sole.n = 1
    /\ sole.hist = <<1>>
    /\ Raiser = sole.callback
    /\ Cardinality(receivers[sole.signal]) = 2
    /\ max_calls[sole.callback] = IntV(0)

\* the body given to callback d calls `op`
BodyCalls(d, op) ==
    \E i \in 1..Len(last.bodies[d]) : last.bodies[d][i].op = op

\* no callback's body registers c again
NotRegisteredAgain(c) ==
    \A d \in Functions : \A i \in 1..Len(last.bodies[d]) :
        ~(last.bodies[d][i].op = "on" /\ last.bodies[d][i].callback = c)

\* C19: when callbacks call emit from inside their invocation, a callback c with
\* n calls left that is not registered again runs at most n times over the outer
\* and all nested emits; and when c is the only callback that calls emit, the
\* nesting of emits stays within n + 1 and the outermost emit returns without
\* running into the recursion limit.
C19_ReentrantEmitBounded ==
    last.op = "emit" =>
        \A c \in Functions :
            (last.pre.max_calls[c].kind = "int" /\ NotRegisteredAgain(c)) =>
                /\ last.runs[c] <= last.pre.max_calls[c].n
                /\ (\A d \in Functions \ {c} : ~BodyCalls(d, "emit")) =>
                      /\ last.result # "RecursionError"
                      /\ last.deepest <= last.pre.max_calls[c].n + 1

\* C19 witness: f, registered for 'a' with two calls, calls emit('a') itself;
\* emit('a') ran it twice, entered three emits and returned
C19_Witness ==
    /\ last.op = "emit"
    /\ last.signals = Scalar("a")
    /\ last.bodies[Fn("f")] = <<SEmit("a")>>
    /\ last.pre.max_calls[Fn("f")] = IntV(2)
    /\ \E fn \in last.pre.receivers["a"] : last.pre.wrapped[fn.id] = Fn("f")
    /\ last.result = "ok"
    /\ last.runs[Fn("f")] = 2
    /\ last.deepest = 3
    /\ max_calls[Fn("f")] = IntV(0)

\* the signal of the last emit
Emitted == last.signals.sig

\* C20 as stated: when a callback invoked by emit(s) adds a registration to s
\* or removes one from s, the emit ends in an error.
C20_MutationEndsEmit ==
    (last.op = "emit" /\ Emitted \in last.touched) => last.result # "ok"

\* C20 amended: when the callbacks invoked by emit(s) leave s's set with another
\* number of registrations than it had, the emit ends in an error; and the
\* error of the iteration arises only when a callback changed a set (that of
\* s, or that of a signal emitted from inside a callback).
C20_SizeChangeEndsEmit ==
    last.op = "emit" =>
        /\ Cardinality(receivers[Emitted]) # Cardinality(last.pre.receivers[Emitted])
              => last.result # "ok"
        /\ last.result = "RuntimeError" => last.touched # {}

\* C20 witness: f and g were registered for 'a'; f, called first, registered g
\* once more for 'a'; emit('a') ended with RuntimeError and did not call g
C20_Witness ==
    /\ last.op = "emit"
    /\ Emitted = "a"
    /\ last.pre.wrapped = <<Fn("f"), Fn("g")>>
    /\ last.pre.receivers["a"] = {Wr(1), Wr(2)}
    /\ last.bodies[Fn("f")] = <<SOn("a", Fn("g"), None)>>
    /\ last.bodies[Fn("g")] = <<>>
    /\ last.result = "RuntimeError"
    /\ last.runs[Fn("f")] = 1
    /\ last.runs[Fn("g")] = 0
    /\ Cardinality(receivers["a"]) = 3

====
